---- MODULE Spec2Model ----
(***************************************************************************)
(* generate.ps1: cover letter + MIME message + Gmail draft upload over     *)
(* IMAP (LOGIN / APPEND / LOGOUT) + tracker.csv; the credit functions of    *)
(* the database; api and confirmAndGenerate of the frontend (app.js).      *)
(*                                                                         *)
(* Text is modelled as sequences of characters.  A character is a          *)
(* one-character string; "CR", "LF" and the "U+xxxx" tokens stand for one  *)
(* UTF-16 code unit each.  Bytes of a UTF-8 stream are the ASCII           *)
(* character itself or an "xHH" token; bytes of a file are 0..255.         *)
(***************************************************************************)
EXTENDS Integers, Sequences, FiniteSets, TLC

VARIABLES
    pc,               \* position of the script
    peer,             \* the environment: an arbitrary server, or the mock that always accepts
    eof,              \* the peer has closed the stream
    silent,           \* the peer stays connected and sends nothing further
    targets,          \* $targets (targets.json)
    trackerFile,      \* rows of tracker.csv on disk
    cvWrapped,        \* $cvWrapped
    portfolioWrapped, \* $portfolioWrapped
    recWrapped,       \* $recWrapped
    conn,             \* the connection: tcp, ssl, cmd
    resp,             \* $resp
    existingTracker,  \* $existingTracker
    trackerRows,      \* $trackerRows
    index,            \* $index
    mime,             \* $mime
    byteCount,        \* $byteCount
    cmdTag,           \* $cmdTag
    ok,               \* $ok
    wire,             \* the command lines written to the transport, in order
    body,             \* what was written to the transport after the last command line
    firstResp,        \* first line read after the last APPEND command
    console,          \* last error line written to the host
    results,          \* value returned by each Send-ImapDraft call
    encoderPc,        \* position of the attachment encoder run on its own
    material,         \* bytes of a file of the Material folder (ReadAllBytes)
    base64Text,       \* result of Convert.ToBase64String
    wrappedText,      \* result of Wrap-Base64
    user_credits,     \* table user_credits: committed credits of each user that has a row
    rowLock,          \* row lock of each row: the session holding it, 0 when free
    sessions,         \* database sessions: the function each is running and its locals
    returns,          \* the calls that have returned, in order of commit
    composed,         \* the messages built so far by the composer run on its own: inputs and $mime
    accessToken,      \* app.js: accessToken
    supabaseClient,   \* app.js: supabaseClient
    view,             \* the page shown: landing, login or app
    pendingTargets,   \* app.js: pendingTargets
    manualTargets,    \* app.js: manualTargets
    confirmBtn,       \* the element with id confirmBtn
    toasts,           \* the toasts shown, in order
    apiPc,            \* position of one call of api
    opts,             \* api: opts.headers
    requests,         \* the Authorization header of each request the call of api has sent
    refreshes,        \* number of calls of supabaseClient.auth.refreshSession made by the call of api
    refreshData,      \* refreshSession: data.session
    apiRes,           \* api: status of the last response
    apiResult,        \* what the call of api returned or threw
    genPc,            \* position of one call of confirmAndGenerate
    allTargets,       \* confirmAndGenerate: allTargets
    readerDone,       \* confirmAndGenerate: done, of the last reader.read()
    finalResult,      \* confirmAndGenerate: finalResult
    caught,           \* confirmAndGenerate: e.message of the catch clause
    chunks            \* number of chunks read from the generate stream

scriptVars ==
    <<pc, peer, eof, silent, targets, trackerFile, cvWrapped, portfolioWrapped, recWrapped,
      conn, resp, existingTracker, trackerRows, index, mime, byteCount,
      cmdTag, ok, wire, body, firstResp, console, results>>

encoderVars ==
    <<encoderPc, material, base64Text, wrappedText>>

dbVars ==
    <<user_credits, rowLock, sessions, returns>>

appVars ==
    <<accessToken, supabaseClient, view, pendingTargets, manualTargets, confirmBtn, toasts,
      apiPc, opts, requests, refreshes, refreshData, apiRes, apiResult,
      genPc, allTargets, readerDone, finalResult, caught, chunks>>

vars ==
    <<scriptVars, encoderVars, dbVars, composed, appVars>>

-----------------------------------------------------------------------------
(* Bounds of the model *)

MaxTargets ==
    2

LongBatch ==
    98

MaxBytes ==
    116

MaxCalls ==
    3

-----------------------------------------------------------------------------
(* Text *)

Null ==
    <<"NULL">>

Str(s) ==
    IF s = Null THEN <<>> ELSE s

Lower ==
    ("A" :> "a") @@ ("B" :> "b") @@ ("C" :> "c") @@ ("D" :> "d") @@ ("E" :> "e") @@ ("F" :> "f") @@ ("G" :> "g") @@ ("H" :> "h") @@ ("I" :> "i") @@ ("J" :> "j") @@ ("K" :> "k") @@ ("L" :> "l") @@ ("M" :> "m") @@ ("N" :> "n") @@ ("O" :> "o") @@ ("P" :> "p") @@ ("Q" :> "q") @@ ("R" :> "r") @@ ("S" :> "s") @@ ("T" :> "t") @@ ("U" :> "u") @@ ("V" :> "v") @@ ("W" :> "w") @@ ("X" :> "x") @@ ("Y" :> "y") @@ ("Z" :> "z")

ToLower(c) ==
    IF c \in DOMAIN Lower THEN Lower[c] ELSE c

Fold(s) ==
    [i \in 1..Len(s) |-> ToLower(s[i])]

Digits ==
    <<"0", "1", "2", "3", "4", "5", "6", "7", "8", "9">>

RECURSIVE ToDec(_)
ToDec(n) ==
    IF n < 10 THEN <<Digits[n + 1]>>
    ELSE ToDec(n \div 10) \o <<Digits[(n % 10) + 1]>>

MatchPrefix(s, pat) ==
    LET x == Fold(Str(s))
        p == Fold(pat)
    IN  Len(x) >= Len(p) /\ SubSeq(x, 1, Len(p)) = p

MatchAnywhere(s, pat) ==
    LET x == Fold(Str(s))
        p == Fold(pat)
    IN  \E i \in 1..(Len(x) - Len(p) + 1) : SubSeq(x, i, i + Len(p) - 1) = p

Min(a, b) ==
    IF a < b THEN a ELSE b

RECURSIVE ConcatRange(_, _, _)
ConcatRange(parts, lo, hi) ==
    IF lo > hi THEN <<>>
    ELSE IF lo = hi THEN parts[lo]
    ELSE LET mid == (lo + hi) \div 2
         IN  ConcatRange(parts, lo, mid) \o ConcatRange(parts, mid + 1, hi)

EqIgnoreCase(a, b) ==
    Fold(a) = Fold(b)

T_Login ==
    <<"a", "1", " ", "L", "O", "G", "I", "N", " ", "\"">>

T_QSpQ ==
    <<"\"", " ", "\"">>

T_Q ==
    <<"\"">>

T_Append ==
    <<" ", "A", "P", "P", "E", "N", "D", " ", "\"", "[", "G", "m", "a", "i", "l", "]", "/", "D", "r", "a", "f", "t", "s", "\"", " ", "(", "\\", "D", "r", "a", "f", "t", ")", " ", "{">>

T_RBrace ==
    <<"}">>

T_Logout ==
    <<"a", "9", "9", " ", "L", "O", "G", "O", "U", "T">>

T_PartPrefix ==
    <<"-", "-", "-", "-", "=", "_", "P", "a", "r", "t", "_">>

T_Underscore ==
    <<"_">>

T_MimeVersion ==
    <<"M", "I", "M", "E", "-", "V", "e", "r", "s", "i", "o", "n", ":", " ", "1", ".", "0">>

T_From ==
    <<"F", "r", "o", "m", ":", " ">>

T_SpLt ==
    <<" ", "<">>

T_Gt ==
    <<">">>

T_To ==
    <<"T", "o", ":", " ">>

T_Subject ==
    <<"S", "u", "b", "j", "e", "c", "t", ":", " ">>

(* variant: the Date header carries a counter of the messages built, not the date it is given *)
T_Date_counter ==
    <<"D", "a", "t", "e", ":", " ">> \o ToDec(Len(composed))

T_Date ==
    <<"D", "a", "t", "e", ":", " ">>

T_CTMixed ==
    <<"C", "o", "n", "t", "e", "n", "t", "-", "T", "y", "p", "e", ":", " ", "m", "u", "l", "t", "i", "p", "a", "r", "t", "/", "m", "i", "x", "e", "d", ";", " ", "b", "o", "u", "n", "d", "a", "r", "y", "=", "\"">>

T_Dashes ==
    <<"-", "-">>

T_CTPlain ==
    <<"C", "o", "n", "t", "e", "n", "t", "-", "T", "y", "p", "e", ":", " ", "t", "e", "x", "t", "/", "p", "l", "a", "i", "n", ";", " ", "c", "h", "a", "r", "s", "e", "t", "=", "\"", "u", "t", "f", "-", "8", "\"">>

T_CTE8bit ==
    <<"C", "o", "n", "t", "e", "n", "t", "-", "T", "r", "a", "n", "s", "f", "e", "r", "-", "E", "n", "c", "o", "d", "i", "n", "g", ":", " ", "8", "b", "i", "t">>

T_Dear ==
    <<"D", "e", "a", "r", " ", "H", "i", "r", "i", "n", "g", " ", "M", "a", "n", "a", "g", "e", "r", ",">>

T_Writing ==
    <<"I", " ", "a", "m", " ", "w", "r", "i", "t", "i", "n", "g", " ", "t", "o", " ", "a", "p", "p", "l", "y", " ", "f", "o", "r", " ", "t", "h", "e", " ">>

T_PositionAt ==
    <<" ", "p", "o", "s", "i", "t", "i", "o", "n", " ", "a", "t", " ">>

T_Dot ==
    <<".">>

T_Welcome ==
    <<".", " ", "I", " ", "w", "o", "u", "l", "d", " ", "w", "e", "l", "c", "o", "m", "e", " ", "t", "h", "e", " ", "o", "p", "p", "o", "r", "t", "u", "n", "i", "t", "y", " ", "t", "o", " ", "b", "r", "i", "n", "g", " ", "m", "y", " ", "d", "e", "s", "i", "g", "n", " ", "e", "x", "p", "e", "r", "i", "e", "n", "c", "e", " ", "a", "n", "d", " ", "s", "k", "i", "l", "l", "s", " ", "t", "o", " ", "y", "o", "u", "r", " ", "t", "e", "a", "m", ".">>

T_Thanks ==
    <<"T", "h", "a", "n", "k", " ", "y", "o", "u", " ", "f", "o", "r", " ", "y", "o", "u", "r", " ", "t", "i", "m", "e", " ", "a", "n", "d", " ", "c", "o", "n", "s", "i", "d", "e", "r", "a", "t", "i", "o", "n", ".", " ", "I", " ", "l", "o", "o", "k", " ", "f", "o", "r", "w", "a", "r", "d", " ", "t", "o", " ", "t", "h", "e", " ", "p", "o", "s", "s", "i", "b", "i", "l", "i", "t", "y", " ", "o", "f", " ", "d", "i", "s", "c", "u", "s", "s", "i", "n", "g", " ", "h", "o", "w", " ", "I", " ", "c", "a", "n", " ", "c", "o", "n", "t", "r", "i", "b", "u", "t", "e", " ", "t", "o", " ", "y", "o", "u", "r", " ", "p", "r", "o", "j", "e", "c", "t", "s", ".">>

T_Regards ==
    <<"B", "e", "s", "t", " ", "r", "e", "g", "a", "r", "d", "s", ",">>

T_CTPdf ==
    <<"C", "o", "n", "t", "e", "n", "t", "-", "T", "y", "p", "e", ":", " ", "a", "p", "p", "l", "i", "c", "a", "t", "i", "o", "n", "/", "p", "d", "f", ";", " ", "n", "a", "m", "e", "=", "\"">>

T_CTEBase64 ==
    <<"C", "o", "n", "t", "e", "n", "t", "-", "T", "r", "a", "n", "s", "f", "e", "r", "-", "E", "n", "c", "o", "d", "i", "n", "g", ":", " ", "b", "a", "s", "e", "6", "4">>

T_CDAttach ==
    <<"C", "o", "n", "t", "e", "n", "t", "-", "D", "i", "s", "p", "o", "s", "i", "t", "i", "o", "n", ":", " ", "a", "t", "t", "a", "c", "h", "m", "e", "n", "t", ";", " ", "f", "i", "l", "e", "n", "a", "m", "e", "=", "\"">>

T_CV ==
    <<"_", "C", "V", ".", "p", "d", "f">>

T_Portfolio ==
    <<"_", "P", "o", "r", "t", "f", "o", "l", "i", "o", ".", "p", "d", "f">>

T_Rec ==
    <<"_", "R", "e", "c", "o", "m", "m", "e", "n", "d", "a", "t", "i", "o", "n", "_", "L", "e", "t", "t", "e", "r", ".", "p", "d", "f">>

T_CoverLetter ==
    <<"_", "C", "O", "V", "E", "R", "_", "L", "E", "T", "T", "E", "R", "_">>

T_Pdf ==
    <<".", "p", "d", "f">>

T_ErrLogin ==
    <<"E", "R", "R", "O", "R", ":", " ", "G", "m", "a", "i", "l", " ", "l", "o", "g", "i", "n", " ", "f", "a", "i", "l", "e", "d", ":", " ">>

T_ErrRejected ==
    <<" ", " ", "E", "R", "R", "O", "R", ":", " ", "I", "M", "A", "P", " ", "A", "P", "P", "E", "N", "D", " ", "r", "e", "j", "e", "c", "t", "e", "d", ":", " ">>

T_ErrFailed ==
    <<" ", " ", "E", "R", "R", "O", "R", ":", " ", "A", "P", "P", "E", "N", "D", " ", "f", "a", "i", "l", "e", "d", ":", " ">>

T_A1Sp ==
    <<"a", "1", " ">>

T_A1OK ==
    <<"a", "1", " ", "O", "K">>

T_Plus ==
    <<"+">>

T_OK ==
    <<"O", "K">>

(* variant: the tag is matched without the space that ends it *)
T_Sp_none ==
    <<>>

T_Sp ==
    <<" ">>

T_a ==
    <<"a">>

T_Generated ==
    <<"G", "e", "n", "e", "r", "a", "t", "e", "d">>

L_Greeting ==
    <<"*", " ", "O", "K", " ", "G", "i", "m", "a", "p", " ", "r", "e", "a", "d", "y">>

L_GoAhead ==
    <<"+", " ", "g", "o", " ", "a", "h", "e", "a", "d">>

L_Exists ==
    <<"*", " ", "5", " ", "E", "X", "I", "S", "T", "S">>

L_Bye ==
    <<"*", " ", "B", "Y", "E", " ", "L", "O", "G", "O", "U", "T", " ", "R", "e", "q", "u", "e", "s", "t", "e", "d">>

S_OKSuccess ==
    <<" ", "O", "K", " ", "S", "u", "c", "c", "e", "s", "s">>

S_NoQuota ==
    <<" ", "N", "O", " ", "[", "C", "A", "N", "N", "O", "T", "]", " ", "q", "u", "o", "t", "a", " ", "e", "x", "c", "e", "e", "d", "e", "d">>

S_NoAuth ==
    <<" ", "N", "O", " ", "[", "A", "U", "T", "H", "E", "N", "T", "I", "C", "A", "T", "I", "O", "N", "F", "A", "I", "L", "E", "D", "]", " ", "I", "n", "v", "a", "l", "i", "d", " ", "c", "r", "e", "d", "e", "n", "t", "i", "a", "l", "s">>

S_NoToken ==
    <<" ", "N", "O", " ", "I", "n", "v", "a", "l", "i", "d", " ", "t", "o", "k", "e", "n">>

S_Bad ==
    <<" ", "B", "A", "D", " ", "C", "o", "u", "l", "d", " ", "n", "o", "t", " ", "p", "a", "r", "s", "e", " ", "c", "o", "m", "m", "a", "n", "d">>

-----------------------------------------------------------------------------
(* Attachment encoder *)

Base64Alphabet ==
    <<"A", "B", "C", "D", "E", "F", "G", "H", "I", "J", "K", "L", "M", "N", "O", "P", "Q", "R", "S", "T", "U", "V", "W", "X", "Y", "Z", "a", "b", "c", "d", "e", "f", "g", "h", "i", "j", "k", "l", "m", "n", "o", "p", "q", "r", "s", "t", "u", "v", "w", "x", "y", "z", "0", "1", "2", "3", "4", "5", "6", "7", "8", "9", "+", "/">>

(* variant: the low two bits of the first byte are not shifted into place *)
Base64Group_unshifted(b) ==
    LET A(i) == Base64Alphabet[i + 1]
    IN  IF Len(b) = 1 THEN
            <<A(b[1] \div 4), A(b[1] % 4), "=", "=">>
        ELSE IF Len(b) = 2 THEN
            <<A(b[1] \div 4), A((b[1] % 4) + (b[2] \div 16)), A((b[2] % 16) * 4), "=">>
        ELSE
            <<A(b[1] \div 4), A((b[1] % 4) + (b[2] \div 16)),
              A((b[2] % 16) * 4 + (b[3] \div 64)), A(b[3] % 64)>>

Base64Group(b) ==
    LET A(i) == Base64Alphabet[i + 1]
    IN  IF Len(b) = 1 THEN
            <<A(b[1] \div 4), A((b[1] % 4) * 16), "=", "=">>
        ELSE IF Len(b) = 2 THEN
            <<A(b[1] \div 4), A((b[1] % 4) * 16 + (b[2] \div 16)), A((b[2] % 16) * 4), "=">>
        ELSE
            <<A(b[1] \div 4), A((b[1] % 4) * 16 + (b[2] \div 16)),
              A((b[2] % 16) * 4 + (b[3] \div 64)), A(b[3] % 64)>>

ToBase64String(b) ==
    LET groups == [g \in 1..((Len(b) + 2) \div 3) |->
                     Base64Group(SubSeq(b, 3 * g - 2, Min(3 * g, Len(b))))]
    IN  ConcatRange(groups, 1, Len(groups))

EnvNewLine ==
    <<"CR", "LF">>

LineWidth ==
    76

RECURSIVE WrapFrom(_, _)
WrapFrom(b64, i) ==
    IF i < Len(b64)
    THEN LET len == Min(LineWidth, Len(b64) - i)
         IN  SubSeq(b64, i + 1, i + len) \o EnvNewLine \o WrapFrom(b64, i + LineWidth)
    ELSE <<>>

(* variant: the text is returned as one line *)
Wrap_Base64_oneLine(b64) ==
    IF Len(b64) = 0 THEN <<>> ELSE b64 \o EnvNewLine

Wrap_Base64(b64) ==
    WrapFrom(b64, 0)

-----------------------------------------------------------------------------
(* UTF-8 encoding of a string of UTF-16 code units *)

HighSurrogates ==
    {"U+D83D"}

LowSurrogates ==
    {"U+DE00"}

Utf8Table ==
    ("U+00E9" :> <<"xC3", "xA9">>) @@ ("U+4E2D" :> <<"xE4", "xB8", "xAD">>)

Utf8Pair ==
    <<"xF0", "x9F", "x98", "x80">>

Utf8Replacement ==
    <<"xEF", "xBF", "xBD">>

Utf8At(s, i) ==
    IF s[i] \in HighSurrogates
    THEN IF i < Len(s) /\ s[i + 1] \in LowSurrogates THEN Utf8Pair ELSE Utf8Replacement
    ELSE IF s[i] \in LowSurrogates
    THEN IF i > 1 /\ s[i - 1] \in HighSurrogates THEN <<>> ELSE Utf8Replacement
    ELSE IF s[i] \in DOMAIN Utf8Table THEN Utf8Table[s[i]]
    ELSE <<s[i]>>

UTF8GetBytes(s) ==
    ConcatRange([i \in 1..Len(s) |-> Utf8At(s, i)], 1, Len(s))

(* variant: the length of the string instead of the length of its bytes *)
ByteCount_chars(mimeMessage) ==
    Len(mimeMessage)

ByteCount(mimeMessage) ==
    Len(UTF8GetBytes(mimeMessage))

-----------------------------------------------------------------------------
(* File names *)

SafeChars ==
    {"a", "b", "c", "d", "e", "f", "g", "h", "i", "j", "k", "l", "m", "n", "o", "p", "q", "r", "s", "t", "u", "v", "w", "x", "y", "z", "A", "B", "C", "D", "E", "F", "G", "H", "I", "J", "K", "L", "M", "N", "O", "P", "Q", "R", "S", "T", "U", "V", "W", "X", "Y", "Z", "0", "1", "2", "3", "4", "5", "6", "7", "8", "9", " "}

Get_SafeFileName(name) ==
    [i \in 1..Len(name) |-> IF name[i] \in SafeChars THEN name[i] ELSE "_"]

-----------------------------------------------------------------------------
(* Inputs: config.json, targets.json, Material, tracker.csv, clock, guid *)

config ==
    [name |-> <<"Z", "o", "U+00E9">>,
     phone |-> <<"5", "5", "5">>,
     email |-> <<"z", "@", "g", ".", "c", "o">>,
     gmail_app_password |-> <<"p", "w">>]

TargetAcme ==
    [firm |-> <<"A", "c", "m", "e">>, email |-> <<"h", "r", "@", "a", "c", "m", "e", ".", "i", "o">>, location |-> <<"N", "Y", "C">>,
     position |-> <<"J", "u", "n", "i", "o", "r", " ", "A", "r", "c", "h", "i", "t", "e", "c", "t">>, openDate |-> <<"2", "0", "2", "6", "-", "0", "2">>, subject |-> <<"A", "p", "p", "l", "i", "c", "a", "t", "i", "o", "n">>,
     source |-> <<"w", "e", "b">>, custom_p3 |-> <<"I", " ", "a", "d", "m", "i", "r", "e", " ", "y", "o", "u", "r", " ", "w", "o", "r", "k", ".">>, custom_p4 |-> <<"M", "y", " ", "s", "k", "i", "l", "l", "s", " ", "f", "i", "t">>]

TargetBolt ==
    [firm |-> <<"B", "o", "l", "t", " ", "&", " ", "C", "o">>, email |-> <<"j", "o", "b", "s", "@", "b", "o", "l", "t", ".", "c", "o">>, location |-> <<"L", "A">>,
     position |-> <<"D", "e", "s", "i", "g", "n", "e", "r", " ", "I">>, openDate |-> <<"2", "0", "2", "6", "-", "0", "2">>, subject |-> <<"H", "i", " ", "U+D83D", "U+DE00", "U+4E2D">>,
     source |-> <<"w", "e", "b">>, custom_p3 |-> <<"I", " ", "a", "d", "m", "i", "r", "e", " ", "y", "o", "u", "r", " ", "w", "o", "r", "k", ".">>, custom_p4 |-> <<"M", "y", " ", "s", "k", "i", "l", "l", "s", " ", "f", "i", "t">>]

TargetPool ==
    {TargetAcme, TargetBolt}

Today ==
    <<"2", "0", "2", "6", "-", "0", "2", "-", "0", "1">>

EmlDateLater ==
    <<"S", "u", "n", ",", " ", "0", "1", " ", "F", "e", "b", " ", "2", "0", "2", "6", " ", "1", "0", ":", "0", "0", ":", "0", "1", " ", "+", "0", "0", "0", "0">>

EmlDate ==
    <<"S", "u", "n", ",", " ", "0", "1", " ", "F", "e", "b", " ", "2", "0", "2", "6", " ", "1", "0", ":", "0", "0", ":", "0", "0", " ", "+", "0", "0", "0", "0">>

GuidOther ==
    <<"f", "e", "d", "c", "b", "a", "9", "8", "7", "6", "5", "4", "3", "2", "1", "0">>

Guid16 ==
    <<"0", "1", "2", "3", "4", "5", "6", "7", "8", "9", "a", "b", "c", "d", "e", "f">>

CvFile ==
    <<37, 80, 68, 70, 45>>

PortfolioFile ==
    <<37, 80, 68, 70>>

RecFile ==
    <<37, 80, 68>>

CoverLetterPdf ==
    <<37, 80, 68, 70, 10, 255>>

NoFile ==
    [exists |-> FALSE, bytes |-> <<>>]

PdfOutcomes ==
    IF peer = "mock" THEN {[exists |-> TRUE, bytes |-> CoverLetterPdf]}
    ELSE {NoFile, [exists |-> TRUE, bytes |-> CoverLetterPdf]}

Row(firm, location, position, openDate, appliedDate, email, source, status) ==
    [Firm |-> firm, Location |-> location, Position |-> position, OpenDate |-> openDate,
     AppliedDate |-> appliedDate, Email |-> email, Source |-> source, Status |-> status]

OldDate ==
    <<"2", "0", "2", "6", "-", "0", "1", "-", "1", "5">>

RowOf(t, status) ==
    Row(t.firm, t.location, t.position, t.openDate, OldDate, t.email, t.source, status)

TrackerFiles ==
    {<<>>,
     <<RowOf(TargetAcme, T_Generated)>>,
     <<RowOf(TargetAcme, <<"S", "e", "n", "t">>), RowOf(TargetBolt, T_Generated)>>}

RECURSIVE SeqsUpTo(_, _)
SeqsUpTo(S, n) ==
    IF n = 0 THEN {<<>>}
    ELSE LET shorter == SeqsUpTo(S, n - 1)
         IN  shorter \cup {Append(s, x) : s \in {q \in shorter : Len(q) = n - 1}, x \in S}

Batches ==
    SeqsUpTo(TargetPool, MaxTargets)

LongBatches ==
    {[i \in 1..LongBatch |-> TargetBolt]}

-----------------------------------------------------------------------------
(* MIME composer (the here-strings of the main script) *)

HereNL ==
    <<"CR", "LF">>

RECURSIVE JoinLines(_)
JoinLines(lines) ==
    IF Len(lines) = 0 THEN <<>>
    ELSE IF Len(lines) = 1 THEN lines[1]
    ELSE lines[1] \o HereNL \o JoinLines(Tail(lines))

BoundaryOf(idx, guid) ==
    T_PartPrefix \o ToDec(idx) \o T_Underscore \o guid

Boundary(idx) ==
    BoundaryOf(idx, Guid16)

(* variant: the part starts with the bare boundary, without the two dashes *)
PartHeader_noDashes(boundary, fileName) ==
    <<boundary,
      T_CTPdf \o fileName \o T_Q,
      T_CTEBase64,
      T_CDAttach \o fileName \o T_Q,
      <<>>>>

PartHeader(boundary, fileName) ==
    <<T_Dashes \o boundary,
      T_CTPdf \o fileName \o T_Q,
      T_CTEBase64,
      T_CDAttach \o fileName \o T_Q,
      <<>>>>

CoverLetterAttachment(boundary, t, pdf) ==
    IF pdf.exists
    THEN LET clWrapped == Wrap_Base64(ToBase64String(pdf.bytes))
             clFileName == Get_SafeFileName(config.name) \o T_CoverLetter
                           \o Get_SafeFileName(t.firm) \o T_Pdf
         IN  JoinLines(<<<<>>>> \o PartHeader(boundary, clFileName) \o <<clWrapped>>)
    ELSE <<>>

ComposeWith(boundary, emlDate, t, pdf, cvW, portfolioW, recW) ==
    LET nameSafe == Get_SafeFileName(config.name)
        cvFileName == nameSafe \o T_CV
        portfolioFileName == nameSafe \o T_Portfolio
        recFileName == nameSafe \o T_Rec
    IN  JoinLines(
          <<T_MimeVersion,
            T_From \o config.name \o T_SpLt \o config.email \o T_Gt,
            T_To \o t.email,
            T_Subject \o t.subject,
            T_Date \o emlDate,
            T_CTMixed \o boundary \o T_Q,
            <<>>,
            T_Dashes \o boundary,
            T_CTPlain,
            T_CTE8bit,
            <<>>,
            T_Dear,
            <<>>,
            T_Writing \o t.position \o T_PositionAt \o t.firm \o T_Dot,
            <<>>,
            t.custom_p3,
            <<>>,
            t.custom_p4 \o T_Welcome,
            <<>>,
            T_Thanks,
            <<>>,
            T_Regards,
            config.name,
            config.phone,
            config.email,
            <<>>>>
          \o PartHeader(boundary, cvFileName) \o <<cvW>>
          \o PartHeader(boundary, portfolioFileName) \o <<portfolioW>>
          \o PartHeader(boundary, recFileName)
          \o <<recW \o CoverLetterAttachment(boundary, t, pdf),
               T_Dashes \o boundary \o T_Dashes>>)

Compose(t, idx, pdf, cvW, portfolioW, recW) ==
    ComposeWith(Boundary(idx), EmlDate, t, pdf, cvW, portfolioW, recW)

-----------------------------------------------------------------------------
(* Transport: what the script writes, and what ReadLine may return *)

Line(s) ==
    [k |-> "line", s |-> s]

Raw(b) ==
    [k |-> "raw", s |-> b]

LoginTag ==
    <<"a", "1">>

(* Lines a server may send while the command tagged `tag` is outstanding: a   *)
(* continuation, an untagged line, tagged completions (OK, NO, a NO whose     *)
(* text contains "ok"), and a completion whose tag only begins with `tag`.    *)
Lines(tag) ==
    {L_GoAhead, L_Exists,
     tag \o S_OKSuccess,
     tag \o (IF tag = LoginTag THEN S_NoAuth ELSE S_NoQuota),
     tag \o S_NoToken,
     tag \o <<"0">> \o S_OKSuccess}

MockReply(tag) ==
    CASE pc = "Greeting" -> L_Greeting
      [] pc = "Continuation" -> L_GoAhead
      [] pc = "LogoutRead" -> L_Bye
      [] OTHER -> tag \o S_OKSuccess

ReadLine(tag) ==
    IF silent THEN {}
    ELSE IF eof THEN {Null}
    ELSE IF peer = "mock" THEN {MockReply(tag)}
    ELSE Lines(tag) \cup {Null}

-----------------------------------------------------------------------------
(* Initial state: the script has read its inputs and encoded the attachments *)

(* no database session is open *)
DatabaseRest ==
    /\ user_credits = <<>>
    /\ rowLock = <<>>
    /\ sessions = <<>>
    /\ returns = <<>>

(* the encoder is not run on its own *)
EncoderRest ==
    /\ encoderPc = "Off"
    /\ material = <<>>
    /\ base64Text = <<>>
    /\ wrappedText = <<>>


NoToken ==
    "null"

NoResult ==
    [type |-> "null"]

AppRest ==
    /\ accessToken = NoToken
    /\ supabaseClient = "null"
    /\ view = "landing"
    /\ pendingTargets = <<>>
    /\ manualTargets = <<>>
    /\ confirmBtn = [disabled |-> TRUE]
    /\ toasts = <<>>
    /\ apiPc = "Off"
    /\ opts = [Authorization |-> NoToken]
    /\ requests = <<>>
    /\ refreshes = 0
    /\ refreshData = NoToken
    /\ apiRes = "none"
    /\ apiResult = [threw |-> FALSE, value |-> "none"]
    /\ genPc = "Off"
    /\ allTargets = <<>>
    /\ readerDone = FALSE
    /\ finalResult = NoResult
    /\ caught = "null"
    /\ chunks = 0

ComposerRest ==
    composed = <<>>

Init ==
    /\ peer \in {"arbitrary", "mock"}
    /\ targets \in (IF peer = "mock" THEN LongBatches ELSE Batches)
    /\ trackerFile \in (IF peer = "mock" THEN {<<>>} ELSE TrackerFiles)
    /\ cvWrapped = Wrap_Base64(ToBase64String(CvFile))
    /\ portfolioWrapped = Wrap_Base64(ToBase64String(PortfolioFile))
    /\ recWrapped = Wrap_Base64(ToBase64String(RecFile))
    /\ pc = "Connect"
    /\ eof = FALSE
    /\ silent = FALSE
    /\ conn = [tcp |-> "none", ssl |-> "none", cmd |-> 0]
    /\ resp = <<>>
    /\ existingTracker = <<>>
    /\ trackerRows = <<>>
    /\ index = 0
    /\ mime = <<>>
    /\ byteCount = 0
    /\ cmdTag = <<>>
    /\ ok = FALSE
    /\ wire = <<>>
    /\ body = <<>>
    /\ firstResp = <<>>
    /\ console = <<>>
    /\ results = <<>>
    /\ EncoderRest
    /\ DatabaseRest
    /\ ComposerRest
    /\ AppRest

inputs ==
    <<peer, targets, cvWrapped, portfolioWrapped, recWrapped>>

sendLocals ==
    <<mime, byteCount, cmdTag>>

(* variant: the characters of the string are written, not their UTF-8 bytes *)
msgBytes_text ==
    mime

msgBytes ==
    UTF8GetBytes(mime)

-----------------------------------------------------------------------------
(* Connect-Gmail *)

Connect_Gmail_Open ==
    /\ pc = "Connect"
    /\ conn' = [conn EXCEPT !.tcp = "open", !.ssl = "open"]
    /\ pc' = "Greeting"
    /\ UNCHANGED <<appVars, composed, dbVars, encoderVars, inputs, silent, sendLocals, eof, trackerFile, resp, existingTracker,
                   trackerRows, index, ok, wire, body, firstResp, console, results>>

LoginCommand ==
    T_Login \o config.email \o T_QSpQ \o config.gmail_app_password \o T_Q

Connect_Gmail_Greeting ==
    /\ pc = "Greeting"
    /\ \E r \in ReadLine(LoginTag) :
        /\ eof' = (r = Null)
        /\ wire' = Append(wire, LoginCommand)
        /\ body' = <<>>
        /\ resp' = <<>>
        /\ pc' = "LoginWait"
    /\ UNCHANGED <<appVars, composed, dbVars, encoderVars, inputs, silent, sendLocals, trackerFile, conn, existingTracker,
                   trackerRows, index, ok, firstResp, console, results>>

(* variant: any line tagged a1 is taken for success *)
LoginOK_tagged(r) ==
    MatchPrefix(r, T_A1Sp)

LoginOK(r) ==
    MatchPrefix(r, T_A1OK)

Connect_Gmail_LoginWait ==
    /\ pc = "LoginWait"
    /\ \E r \in ReadLine(LoginTag) :
        /\ eof' = (r = Null)
        /\ resp' = r
        /\ IF ~MatchPrefix(r, T_A1Sp)
           THEN /\ pc' = "LoginWait"
                /\ UNCHANGED <<conn, console, existingTracker>>
           ELSE IF ~LoginOK(r)
           THEN /\ console' = T_ErrLogin \o Str(r)
                /\ pc' = "Exit1"
                /\ UNCHANGED <<conn, existingTracker>>
           ELSE /\ conn' = [conn EXCEPT !.cmd = 2]
                /\ existingTracker' = trackerFile
                /\ pc' = "Targets"
                /\ UNCHANGED console
    /\ UNCHANGED <<appVars, composed, dbVars, encoderVars, inputs, silent, sendLocals, trackerFile, trackerRows, index, ok, wire,
                   body, firstResp, results>>

-----------------------------------------------------------------------------
(* Main script: the loop over the targets *)

(* variant: no row of the tracker is ever found *)
AlreadyExists_none(t) ==
    <<>>

AlreadyExists(t) ==
    SelectSeq(existingTracker,
              LAMBDA row : EqIgnoreCase(row.Firm, t.firm) /\ EqIgnoreCase(row.Status, T_Generated))

TrackerRow(t) ==
    Row(t.firm, t.location, t.position, t.openDate, Today, t.email, t.source, T_Generated)

SkipTarget ==
    /\ pc = "Targets"
    /\ index < Len(targets)
    /\ LET t == targets[index + 1]
       IN  /\ AlreadyExists(t) # <<>>
           /\ index' = index + 1
           /\ trackerRows' = trackerRows \o AlreadyExists(t)
    /\ UNCHANGED <<appVars, composed, dbVars, encoderVars, inputs, silent, sendLocals, eof, trackerFile, conn, resp, existingTracker,
                   ok, wire, body, firstResp, console, results, pc>>

(* firstResp and console are captures of the current exchange: a new APPEND *)
(* command starts them afresh (the host prints the target's header line).   *)
AppendCommand(tag, n) ==
    tag \o T_Append \o ToDec(n) \o T_RBrace

(* variant: the next command is also written while a completion is awaited *)
Send_ImapDraft_Command_pipelined ==
    /\ pc \in {"Targets", "Completion"}
    /\ index < Len(targets)
    /\ LET t == targets[index + 1]
       IN  /\ AlreadyExists(t) = <<>>
           /\ index' = index + 1
           /\ \E pdf \in PdfOutcomes :
                mime' = Compose(t, index + 1, pdf, cvWrapped, portfolioWrapped, recWrapped)
    /\ byteCount' = ByteCount(mime')
    /\ cmdTag' = T_a \o ToDec(conn.cmd)
    /\ conn' = [conn EXCEPT !.cmd = conn.cmd + 1]
    /\ wire' = Append(wire, AppendCommand(cmdTag', byteCount'))
    /\ body' = <<>>
    /\ firstResp' = <<>>
    /\ console' = <<>>
    /\ pc' = "Continuation"
    /\ UNCHANGED <<appVars, composed, dbVars, encoderVars, inputs, silent, eof, trackerFile, resp, existingTracker, trackerRows,
                   ok, results>>

Send_ImapDraft_Command ==
    /\ pc = "Targets"
    /\ index < Len(targets)
    /\ LET t == targets[index + 1]
       IN  /\ AlreadyExists(t) = <<>>
           /\ index' = index + 1
           /\ \E pdf \in PdfOutcomes :
                mime' = Compose(t, index + 1, pdf, cvWrapped, portfolioWrapped, recWrapped)
    /\ byteCount' = ByteCount(mime')
    /\ cmdTag' = T_a \o ToDec(conn.cmd)
    /\ conn' = [conn EXCEPT !.cmd = conn.cmd + 1]
    /\ wire' = Append(wire, AppendCommand(cmdTag', byteCount'))
    /\ body' = <<>>
    /\ firstResp' = <<>>
    /\ console' = <<>>
    /\ pc' = "Continuation"
    /\ UNCHANGED <<appVars, composed, dbVars, encoderVars, inputs, silent, eof, trackerFile, resp, existingTracker, trackerRows,
                   ok, results>>

Returned(okv) ==
    /\ ok' = okv
    /\ results' = Append(results, [index |-> index, ok |-> okv])
    /\ trackerRows' = Append(trackerRows, TrackerRow(targets[index]))
    /\ pc' = "Targets"

(* variant: the literal is sent without looking at the continuation line *)
ContinuationOK_always(r) ==
    TRUE

ContinuationOK(r) ==
    MatchPrefix(r, T_Plus)

(* variant: the completion is compared with "OK" instead of matched *)
CompletionOK_exact(r) ==
    Str(r) = T_OK

CompletionOK(r) ==
    MatchAnywhere(r, T_OK)

Send_ImapDraft_Continuation ==
    /\ pc = "Continuation"
    /\ \E r \in ReadLine(cmdTag) :
        /\ eof' = (r = Null)
        /\ firstResp' = r
        /\ IF ~ContinuationOK(r)
           THEN /\ resp' = r
                /\ console' = T_ErrRejected \o Str(r)
                /\ Returned(FALSE)
                /\ UNCHANGED body
           ELSE /\ body' = <<Raw(msgBytes), Line(<<>>)>>
                /\ resp' = <<>>
                /\ pc' = "Completion"
                /\ UNCHANGED <<ok, results, trackerRows, console>>
    /\ UNCHANGED <<appVars, composed, dbVars, encoderVars, inputs, silent, sendLocals, trackerFile, conn, existingTracker, index, wire>>

(* variant: a completion that is not OK makes the command be written again *)
Send_ImapDraft_Completion_retry ==
    /\ pc = "Completion"
    /\ \E r \in ReadLine(cmdTag) :
        /\ eof' = (r = Null)
        /\ resp' = r
        /\ IF ~MatchPrefix(r, cmdTag \o T_Sp)
           THEN UNCHANGED <<pc, ok, results, trackerRows, console, wire, body>>
           ELSE IF CompletionOK(r)
           THEN Returned(TRUE) /\ UNCHANGED <<console, wire, body>>
           ELSE /\ wire' = Append(wire, AppendCommand(cmdTag, byteCount))
                /\ body' = <<>>
                /\ pc' = "Continuation"
                /\ console' = T_ErrFailed \o Str(r)
                /\ UNCHANGED <<ok, results, trackerRows>>
    /\ UNCHANGED <<appVars, composed, dbVars, encoderVars, inputs, silent, sendLocals, trackerFile, conn, existingTracker,
                   index, firstResp>>

Send_ImapDraft_Completion ==
    /\ pc = "Completion"
    /\ \E r \in ReadLine(cmdTag) :
        /\ eof' = (r = Null)
        /\ resp' = r
        /\ IF ~MatchPrefix(r, cmdTag \o T_Sp)
           THEN UNCHANGED <<pc, ok, results, trackerRows, console>>
           ELSE IF CompletionOK(r)
           THEN Returned(TRUE) /\ UNCHANGED console
           ELSE Returned(FALSE) /\ console' = T_ErrFailed \o Str(r)
    /\ UNCHANGED <<appVars, composed, dbVars, encoderVars, inputs, silent, sendLocals, trackerFile, conn, existingTracker, index,
                   wire, body, firstResp>>

-----------------------------------------------------------------------------
(* Close-Gmail and the tracker export *)

Close_Gmail_Logout ==
    /\ pc = "Targets"
    /\ index = Len(targets)
    /\ wire' = Append(wire, T_Logout)
    /\ body' = <<>>
    /\ pc' = "LogoutRead"
    /\ UNCHANGED <<appVars, composed, dbVars, encoderVars, inputs, silent, sendLocals, eof, trackerFile, conn, resp, existingTracker,
                   trackerRows, index, ok, firstResp, console, results>>

Close_Gmail_Close ==
    /\ pc = "LogoutRead"
    /\ \E r \in ReadLine(<<"a", "9", "9">>) : eof' = (r = Null)
    /\ conn' = [conn EXCEPT !.ssl = "closed", !.tcp = "closed"]
    /\ trackerFile' = trackerRows
    /\ pc' = "Done"
    /\ UNCHANGED <<appVars, composed, dbVars, encoderVars, inputs, silent, sendLocals, resp, existingTracker, trackerRows, index, ok,
                   wire, body, firstResp, console, results>>

-----------------------------------------------------------------------------
(* $ErrorActionPreference = "Stop": an exception of the transport ends the script *)

(* The script is about to read from or write to the transport.  Once the peer *)
(* has closed the stream a read returns null and only a write can throw.      *)
DoesIO ==
    IF pc = "Targets"
    THEN IF index = Len(targets) THEN TRUE ELSE AlreadyExists(targets[index + 1]) = <<>>
    ELSE IF eof THEN pc = "Greeting"
    ELSE pc \in {"Connect", "Greeting", "LoginWait", "Continuation", "Completion", "LogoutRead"}

TransportThrows ==
    /\ peer = "arbitrary"
    /\ ~silent
    /\ DoesIO
    /\ pc' = "Crashed"
    /\ UNCHANGED <<appVars, composed, dbVars, encoderVars, inputs, silent, sendLocals, eof, trackerFile, conn, resp, existingTracker,
                   trackerRows, index, ok, wire, body, firstResp, console, results>>

(* The script is inside a call of ReadLine.  No ReceiveTimeout or ReadTimeout *)
(* is set on the TcpClient or the SslStream, so the call returns only when  *)
(* the peer sends a line, closes the stream, or the connection breaks.      *)
AtRead ==
    pc \in {"Greeting", "LoginWait", "Continuation", "Completion", "LogoutRead"}

PeerFallsSilent ==
    /\ peer = "arbitrary"
    /\ AtRead
    /\ ~eof
    /\ ~silent
    /\ silent' = TRUE
    /\ UNCHANGED <<appVars, composed, dbVars, encoderVars, inputs, sendLocals, pc, eof, trackerFile, conn, resp, existingTracker,
                   trackerRows, index, ok, wire, body, firstResp, console, results>>

Next ==
    \/ Connect_Gmail_Open
    \/ Connect_Gmail_Greeting
    \/ Connect_Gmail_LoginWait
    \/ SkipTarget
    \/ Send_ImapDraft_Command
    \/ Send_ImapDraft_Completion
    \/ Send_ImapDraft_Continuation
    \/ Close_Gmail_Logout
    \/ Close_Gmail_Close
    \/ TransportThrows
    \/ PeerFallsSilent

Spec ==
    Init /\ [][Next]_vars

-----------------------------------------------------------------------------
(* The attachment encoder on its own: ReadAllBytes, ToBase64String, Wrap-Base64 *)

(* generate.ps1 is not running *)
ScriptRest ==
    /\ pc = "Off"
    /\ peer = "mock"
    /\ eof = FALSE
    /\ silent = FALSE
    /\ targets = <<>>
    /\ trackerFile = <<>>
    /\ cvWrapped = <<>>
    /\ portfolioWrapped = <<>>
    /\ recWrapped = <<>>
    /\ conn = [tcp |-> "none", ssl |-> "none", cmd |-> 0]
    /\ resp = <<>>
    /\ existingTracker = <<>>
    /\ trackerRows = <<>>
    /\ index = 0
    /\ mime = <<>>
    /\ byteCount = 0
    /\ cmdTag = <<>>
    /\ ok = FALSE
    /\ wire = <<>>
    /\ body = <<>>
    /\ firstResp = <<>>
    /\ console = <<>>
    /\ results = <<>>

(* byte k of a file: start, start + step, start + 2 step, ... modulo 256 *)
BytePatterns ==
    {<<0, 0>>, <<255, 0>>, <<37, 83>>, <<250, 1>>}

Buffers ==
    {[k \in 1..n |-> (p[1] + p[2] * (k - 1)) % 256] : n \in 0..MaxBytes, p \in BytePatterns}

EncoderInit ==
    /\ material \in Buffers
    /\ encoderPc = "Read"
    /\ base64Text = <<>>
    /\ wrappedText = <<>>
    /\ ScriptRest
    /\ DatabaseRest
    /\ ComposerRest
    /\ AppRest

Encode_ToBase64String ==
    /\ encoderPc = "Read"
    /\ base64Text' = ToBase64String(material)
    /\ encoderPc' = "Wrap"
    /\ UNCHANGED <<appVars, composed, dbVars, scriptVars, material, wrappedText>>

Encode_Wrap_Base64 ==
    /\ encoderPc = "Wrap"
    /\ wrappedText' = Wrap_Base64(base64Text)
    /\ encoderPc' = "Done"
    /\ UNCHANGED <<appVars, composed, dbVars, scriptVars, material, base64Text>>

EncoderNext ==
    \/ Encode_ToBase64String
    \/ Encode_Wrap_Base64

EncoderSpec ==
    EncoderInit /\ [][EncoderNext]_vars

-----------------------------------------------------------------------------
(* Table user_credits and its two functions (PostgreSQL, READ COMMITTED).   *)
(* A NUMERIC value is <<n>>, n counting ten-thousandths; NULL is <<>>.      *)

SqlNull ==
    <<>>

Num(n) ==
    <<n>>

(* credits NUMERIC(12,3): a value stored in the column is rounded to three *)
(* decimals, half away from zero                                           *)
Scale3(v) ==
    IF v = SqlNull THEN SqlNull
    ELSE IF v[1] >= 0 THEN Num(((v[1] + 5) \div 10) * 10)
    ELSE Num(0 - ((((0 - v[1]) + 5) \div 10) * 10))

Plus(x, y) ==
    IF x = SqlNull \/ y = SqlNull THEN SqlNull ELSE Num(x[1] + y[1])

Minus(x, y) ==
    IF x = SqlNull \/ y = SqlNull THEN SqlNull ELSE Num(x[1] - y[1])

(* x < y is true; with a NULL operand the comparison is NULL, which IF does *)
(* not take for true                                                        *)
LessThan(x, y) ==
    x # SqlNull /\ y # SqlNull /\ x[1] < y[1]

Users ==
    {"u1", "u2"}

Sessions ==
    {1, 2}

StartCredits ==
    {Num(10), Num(20)}

DeductAmounts ==
    {SqlNull, Num(4), Num(10)}

IncrementAmounts ==
    {Num(10)}

Idle ==
    [pc |-> "idle", fn |-> "", uid |-> "", amount |-> SqlNull, current_balance |-> SqlNull]

CreditsInit ==
    /\ user_credits \in [{"u1"} -> StartCredits]
    /\ rowLock = [u \in {"u1"} |-> 0]
    /\ sessions = [s \in Sessions |-> Idle]
    /\ returns = <<>>
    /\ ScriptRest
    /\ EncoderRest
    /\ ComposerRest
    /\ AppRest

(* a client calls one of the two functions through the RPC interface *)
Rpc(s) ==
    /\ sessions[s].pc = "idle"
    /\ Len(returns) + Cardinality({x \in Sessions : sessions[x].pc # "idle"}) < MaxCalls
    /\ \E uid \in Users :
         \/ \E amount \in DeductAmounts :
               sessions' = [sessions EXCEPT ![s] =
                              [pc |-> "select", fn |-> "use_credits_safe", uid |-> uid,
                               amount |-> amount, current_balance |-> SqlNull]]
         \/ \E amount \in IncrementAmounts :
               sessions' = [sessions EXCEPT ![s] =
                              [pc |-> "update", fn |-> "increment_credits", uid |-> uid,
                               amount |-> amount, current_balance |-> SqlNull]]
    /\ UNCHANGED <<user_credits, rowLock, returns, scriptVars, encoderVars, composed, appVars>>

(* SELECT ... FOR UPDATE locks the row it finds *)
SelectLocks(uid) ==
    uid \in DOMAIN user_credits

use_credits_safe_Select(s) ==
    /\ sessions[s].pc = "select"
    /\ LET uid == sessions[s].uid
       IN  IF SelectLocks(uid)
           THEN /\ rowLock[uid] = 0
                /\ rowLock' = [rowLock EXCEPT ![uid] = s]
                /\ sessions' = [sessions EXCEPT ![s].current_balance = user_credits[uid],
                                                 ![s].pc = "check"]
           ELSE /\ sessions' = [sessions EXCEPT
                                  ![s].current_balance =
                                      IF uid \in DOMAIN user_credits THEN user_credits[uid] ELSE SqlNull,
                                  ![s].pc = "check"]
                /\ UNCHANGED rowLock
    /\ UNCHANGED <<user_credits, returns, scriptVars, encoderVars, composed, appVars>>

(* the function returns and its transaction commits: the lock is released *)
Commit(s, value) ==
    LET uid == sessions[s].uid
        row == uid \in DOMAIN user_credits
    IN  /\ rowLock' = [u \in DOMAIN rowLock |-> IF rowLock[u] = s THEN 0 ELSE rowLock[u]]
        /\ returns' = Append(returns,
                             [fn |-> sessions[s].fn, uid |-> uid, amount |-> sessions[s].amount,
                              result |-> value, row |-> row,
                              before |-> IF row THEN user_credits[uid] ELSE SqlNull,
                              after |-> IF row THEN user_credits'[uid] ELSE SqlNull])
        /\ sessions' = [sessions EXCEPT ![s] = Idle]

use_credits_safe_Check(s) ==
    /\ sessions[s].pc = "check"
    /\ LET uid == sessions[s].uid
           amount == sessions[s].amount
           current_balance == sessions[s].current_balance
       IN  IF current_balance = SqlNull \/ LessThan(current_balance, amount)
           THEN /\ UNCHANGED user_credits
                /\ Commit(s, FALSE)
           ELSE /\ rowLock[uid] \in {0, s}
                /\ user_credits' = [user_credits EXCEPT ![uid] = Scale3(Minus(@, amount))]
                /\ Commit(s, TRUE)
    /\ UNCHANGED <<scriptVars, encoderVars, composed, appVars>>

increment_credits_Update(s) ==
    /\ sessions[s].pc = "update"
    /\ LET uid == sessions[s].uid
           amount == sessions[s].amount
       IN  IF uid \in DOMAIN user_credits
           THEN /\ rowLock[uid] = 0
                /\ user_credits' = [user_credits EXCEPT ![uid] = Scale3(Plus(@, amount))]
           ELSE UNCHANGED user_credits
    /\ Commit(s, FALSE)
    /\ UNCHANGED <<scriptVars, encoderVars, composed, appVars>>

CreditsNext ==
    \/ \E s \in Sessions : Rpc(s)
    \/ \E s \in Sessions : use_credits_safe_Select(s)
    \/ \E s \in Sessions : use_credits_safe_Check(s)
    \/ \E s \in Sessions : increment_credits_Update(s)

CreditsSpec ==
    CreditsInit /\ [][CreditsNext]_vars

-----------------------------------------------------------------------------
(* Reading the captured transport: tag, verb and literal length of a command *)

RECURSIVE SumRange(_, _, _)
SumRange(f, lo, hi) ==
    IF lo > hi THEN 0
    ELSE IF lo = hi THEN f[lo]
    ELSE LET mid == (lo + hi) \div 2
         IN  SumRange(f, lo, mid) + SumRange(f, mid + 1, hi)

CodeUnit(c) ==
    CASE c = "U+00E9" -> 233
      [] c = "U+4E2D" -> 20013
      [] c = "U+D83D" -> 55357
      [] c = "U+DE00" -> 56832
      [] OTHER -> 65

IsHigh(u) ==
    u >= 55296 /\ u <= 56319

IsLow(u) ==
    u >= 56320 /\ u <= 57343

(* RFC 3629 length of the UTF-8 encoding of a UTF-16 string; an unpaired *)
(* surrogate is encoded as U+FFFD.                                       *)
Utf8Length(s) ==
    LET u(i) == CodeUnit(s[i])
        units == [i \in 1..Len(s) |->
                    IF IsHigh(u(i)) /\ i < Len(s) /\ IsLow(u(i + 1)) THEN 4
                    ELSE IF IsLow(u(i)) /\ i > 1 /\ IsHigh(u(i - 1)) THEN 0
                    ELSE IF u(i) < 128 THEN 1
                    ELSE IF u(i) < 2048 THEN 2
                    ELSE 3]
    IN  SumRange(units, 1, Len(s))

Position(s, c) ==
    IF \E i \in 1..Len(s) : s[i] = c
    THEN CHOOSE i \in 1..Len(s) : s[i] = c /\ \A j \in 1..(i - 1) : s[j] # c
    ELSE Len(s) + 1

WordAt(s, n) ==
    LET first == SubSeq(s, 1, Position(s, " ") - 1)
        rest == SubSeq(s, Position(s, " ") + 1, Len(s))
    IN  IF n = 1 THEN first ELSE SubSeq(rest, 1, Position(rest, " ") - 1)

TagOf(line) ==
    WordAt(line, 1)

VerbOf(line) ==
    WordAt(line, 2)

DigitValue(d) ==
    CHOOSE v \in 0..9 : Digits[v + 1] = d

RECURSIVE ParseDec(_)
ParseDec(d) ==
    IF Len(d) = 0 THEN 0
    ELSE 10 * ParseDec(SubSeq(d, 1, Len(d) - 1)) + DigitValue(d[Len(d)])

TagNumber(tag) ==
    ParseDec(Tail(tag))

LiteralCount(line) ==
    ParseDec(SubSeq(line, Position(line, "{") + 1, Len(line) - 1))

IsAppend(line) ==
    VerbOf(line) = <<"A", "P", "P", "E", "N", "D">>

Last(s) ==
    s[Len(s)]

AppendsWritten ==
    Len(SelectSeq(wire, IsAppend))

StartsWithPlus(line) ==
    line # Null /\ Len(line) > 0 /\ line[1] = "+"

(* a Send-ImapDraft call has returned and no later call has begun *)
AppendReturned ==
    /\ results # <<>>
    /\ Len(results) = AppendsWritten

-----------------------------------------------------------------------------
(* C1: the byteCount N in the {N} literal header of the APPEND command is the *)
(* exact UTF-8 byte length of the composed MIME document, and exactly that    *)
(* many bytes are written as the literal.                                     *)
C1_ByteCountIsComposedLength ==
    (wire # <<>> /\ IsAppend(Last(wire))) =>
        /\ LiteralCount(Last(wire)) = Utf8Length(mime)
        /\ body # <<>> =>
            /\ body[1].k = "raw"
            /\ Len(body[1].s) = LiteralCount(Last(wire))

C1_Witness ==
    /\ pc = "Completion"
    /\ Len(body) = 2
    /\ IsAppend(Last(wire))
    /\ Len(body[1].s) > Len(mime)

(* C2: the tags of the commands of one Session are strictly increasing in *)
(* issue order and no two commands carry the same tag.                    *)
C2_TagsStrictlyIncreasing ==
    /\ \A i \in 1..(Len(wire) - 1) :
          TagNumber(TagOf(wire[i])) < TagNumber(TagOf(wire[i + 1]))
    /\ Cardinality({TagOf(wire[i]) : i \in 1..Len(wire)}) = Len(wire)

(* C3: when the server answers the APPEND command with a line starting with *)
(* "+" and completes it with "<tag> OK Success", Send-ImapDraft returns     *)
(* true.                                                                    *)
C3_OkCompletionSucceeds ==
    (AppendReturned /\ StartsWithPlus(firstResp) /\ resp = cmdTag \o S_OKSuccess) =>
        (ok /\ Last(results).ok)

C3_Witness ==
    /\ pc = "Targets"
    /\ AppendReturned
    /\ firstResp = L_GoAhead
    /\ resp = cmdTag \o S_OKSuccess
    /\ Last(results).ok

(* C4: when the first line read after the APPEND command does not start with *)
(* "+", Send-ImapDraft returns false at once, shows the server's line as it  *)
(* was received, and writes nothing after the command line.                  *)
C4_RejectedBeforeLiteral ==
    (AppendReturned /\ ~StartsWithPlus(firstResp)) =>
        /\ ~Last(results).ok
        /\ body = <<>>
        /\ console = T_ErrRejected \o Str(firstResp)

C4_Witness ==
    /\ pc = "Targets"
    /\ AppendReturned
    /\ firstResp = cmdTag \o S_NoQuota
    /\ body = <<>>
    /\ ~Last(results).ok
    /\ console = T_ErrRejected \o cmdTag \o S_NoQuota

(* C5: a tagged completion of LOGIN that is not OK ends the script with the *)
(* login error: LOGIN is written once, no APPEND is ever written, and      *)
(* nothing happens afterwards.                                             *)
StatusOf(line) ==
    WordAt(line, 2)

TaggedNotOK(line, tag) ==
    /\ line # Null
    /\ EqIgnoreCase(TagOf(line), tag)
    /\ ~EqIgnoreCase(StatusOf(line), T_OK)

C5_LoginFailureAborts ==
    [][/\ (pc = "LoginWait" /\ TaggedNotOK(resp', LoginTag)) =>
            /\ pc' = "Exit1"
            /\ console' = T_ErrLogin \o resp'
            /\ wire' = <<LoginCommand>>
       /\ pc # "Exit1"]_vars

C5_Witness ==
    /\ pc = "Exit1"
    /\ resp = LoginTag \o S_NoAuth
    /\ wire = <<LoginCommand>>
    /\ console = T_ErrLogin \o LoginTag \o S_NoAuth

(* C6: once the Session is logged in, every run executes logout (LOGOUT is *)
(* written, one line is read, TLS and socket are closed), also a run in    *)
(* which an APPEND failed or raised an error.                              *)
C6_LogoutAlwaysExecuted ==
    (pc \in {"Done", "Crashed"} /\ conn.cmd >= 2 /\ AppendsWritten >= 1) =>
        /\ Last(wire) = T_Logout
        /\ conn.ssl = "closed"
        /\ conn.tcp = "closed"

(* C7: after an APPEND is rejected by a non-OK tagged completion the failure *)
(* of that message is recorded in the outcome reported for it (the value    *)
(* returned, or the Status of its tracker row).                             *)
JustReturned ==
    /\ pc = "Targets"
    /\ AppendReturned
    /\ Last(results).index = index

C7_RejectionIsRecorded ==
    (JustReturned /\ StartsWithPlus(firstResp) /\ TaggedNotOK(resp, cmdTag)) =>
        (~Last(results).ok \/ ~EqIgnoreCase(Last(trackerRows).Status, T_Generated))

(* C8: every message handed to the uploader has its outcome reported to the *)
(* tracker, also when the upload of a later message of the batch fails.     *)
AllReported ==
    \A i \in 1..Len(results) :
        \E j \in 1..Len(trackerFile) :
            trackerFile[j] = TrackerRow(targets[results[i].index])

C8_EveryOutcomeReported ==
    (pc = "Done" \/ (pc = "Crashed" /\ AppendsWritten > Len(results))) => AllReported

(* C9: after a continuation line that does not start with "+" no further *)
(* APPEND command is written on the Session.                             *)
C9_ProtocolViolationIsFatal ==
    [][(AppendReturned /\ ~StartsWithPlus(firstResp)) =>
           ~(Len(wire') > Len(wire) /\ IsAppend(Last(wire')))]_vars

(* C10: a wait for a tagged completion ends when the peer closes the stream: *)
(* the script is never back in the wait loop after ReadLine returned null.   *)
C10_WaitEndsOnClose ==
    ~(pc \in {"LoginWait", "Completion"} /\ resp = Null)

(* C11: no read waits without bound: when the peer sends nothing further the *)
(* script blocked in ReadLine still has a step to take, the one that ends   *)
(* the read as a failure of the transport.                                  *)
C11_BlockedReadEnds ==
    (silent /\ AtRead) => ENABLED (Next /\ pc' = "Crashed")

(* C12: on every exit path of a run that opened the connection (the normal *)
(* end, a failed login, an error in the middle of the batch) the TLS       *)
(* stream and the TCP socket have been closed.                             *)
C12_ClosedOnEveryExit ==
    (pc \in {"Done", "Exit1", "Crashed"} /\ conn.tcp # "none") =>
        /\ conn.ssl = "closed"
        /\ conn.tcp = "closed"

(* C13: after the literal has been uploaded, a completion carrying the tag *)
(* of the command and a status other than OK makes Send-ImapDraft return   *)
(* false, whatever text follows the status word.                           *)
C13_NonOkCompletionFails ==
    (AppendReturned /\ StartsWithPlus(firstResp) /\ Len(body) = 2
       /\ TaggedNotOK(resp, cmdTag)) =>
        (~ok /\ ~Last(results).ok)

-----------------------------------------------------------------------------
(* Reading base64 text back (RFC 4648) *)

StripNewLines(text) ==
    SelectSeq(text, LAMBDA c : c \notin {"CR", "LF"})

Base64Value(c) ==
    CHOOSE v \in 0..63 : Base64Alphabet[v + 1] = c

DecodeGroup(g) ==
    LET v(k) == Base64Value(g[k])
    IN  IF g[3] = "=" THEN
            <<v(1) * 4 + (v(2) \div 16)>>
        ELSE IF g[4] = "=" THEN
            <<v(1) * 4 + (v(2) \div 16), (v(2) % 16) * 16 + (v(3) \div 4)>>
        ELSE
            <<v(1) * 4 + (v(2) \div 16), (v(2) % 16) * 16 + (v(3) \div 4),
              (v(3) % 4) * 64 + v(4)>>

FromBase64String(text) ==
    LET groups == [g \in 1..(Len(text) \div 4) |-> DecodeGroup(SubSeq(text, 4 * g - 3, 4 * g))]
    IN  ConcatRange(groups, 1, Len(groups))

(* C14: decoding the text produced by the attachment encoder, line *)
(* terminators removed, gives back the bytes that were encoded.    *)
C14_DecodeOfEncode ==
    (encoderPc = "Done") =>
        /\ Len(StripNewLines(wrappedText)) % 4 = 0
        /\ FromBase64String(StripNewLines(wrappedText)) = material

C14_Witness ==
    /\ encoderPc = "Done"
    /\ Len(material) = 115
    /\ material[1] = 37
    /\ Len(wrappedText) > 2 * (LineWidth + 2)
    /\ FromBase64String(StripNewLines(wrappedText)) = material

(* the lines of a text, each without its CR LF terminator *)
RECURSIVE SplitLines(_)
SplitLines(text) ==
    IF Len(text) = 0 THEN <<>>
    ELSE LET cr == Position(text, "CR")
         IN  <<SubSeq(text, 1, cr - 1)>> \o SplitLines(SubSeq(text, cr + 2, Len(text)))

(* C15: every line produced by the attachment encoder has at most 76      *)
(* characters without its terminator, every line but the last has exactly *)
(* 76, and the lines put together are the unwrapped base64 text.          *)
C15_LinesOfEncoder ==
    (encoderPc = "Done") =>
        LET lines == SplitLines(wrappedText)
        IN  /\ \A k \in 1..Len(lines) : Len(lines[k]) <= 76
            /\ \A k \in 1..(Len(lines) - 1) : Len(lines[k]) = 76
            /\ ConcatRange(lines, 1, Len(lines)) = base64Text
            /\ base64Text = ToBase64String(material)

C15_Witness ==
    /\ encoderPc = "Done"
    /\ Len(base64Text) > 2 * 76
    /\ Len(SplitLines(wrappedText)) = 3
    /\ Len(SplitLines(wrappedText)[1]) = 76
    /\ Len(SplitLines(wrappedText)[3]) < 76

-----------------------------------------------------------------------------
(* Reading a composed document: its lines, delimiters and parts *)

(* the attachments handed to the composer, in order: file name and bytes *)
AttachmentsOf(t, pdf) ==
    LET nameSafe == Get_SafeFileName(config.name)
        fixed == <<[name |-> nameSafe \o T_CV, bytes |-> CvFile],
                   [name |-> nameSafe \o T_Portfolio, bytes |-> PortfolioFile],
                   [name |-> nameSafe \o T_Rec, bytes |-> RecFile]>>
    IN  IF pdf.exists
        THEN Append(fixed, [name |-> nameSafe \o T_CoverLetter \o Get_SafeFileName(t.firm) \o T_Pdf,
                            bytes |-> pdf.bytes])
        ELSE fixed

(* indices of the lines equal to `line`, in increasing order *)
LinesEqual(lines, line) ==
    SelectSeq([k \in 1..Len(lines) |-> k], LAMBDA k : lines[k] = line)

(* the document has one text part and one part per attachment, in order, *)
(* each between two delimiter lines, and ends with the closing delimiter *)
WellFormedMultipart(doc, boundary, attachments) ==
    LET lines == SplitLines(doc)
        closing == T_Dashes \o boundary \o T_Dashes
        starts == LinesEqual(lines, T_Dashes \o boundary)
        ends == LinesEqual(lines, closing)
        limit(k) == IF k < Len(starts) THEN starts[k + 1] ELSE Len(lines)
        payload(k) == ConcatRange(lines, starts[k] + 5, limit(k) - 1)
    IN  /\ Len(starts) = Len(attachments) + 1
        /\ lines[starts[1] + 1] = T_CTPlain
        /\ \A k \in 1..Len(attachments) :
              /\ lines[starts[k + 1] + 3] = T_CDAttach \o attachments[k].name \o T_Q
              /\ lines[starts[k + 1] + 4] = <<>>
              /\ payload(k + 1) = ToBase64String(attachments[k].bytes)
        /\ ends = <<Len(lines)>>
        /\ SubSeq(doc, Len(doc) - Len(closing) + 1, Len(doc)) = closing

(* C16: a composed MIME document has exactly one part more than it has      *)
(* attachments (the text part, then one part per attachment, in attachment  *)
(* order) and exactly one closing "--boundary--" line, which is its last    *)
(* line with nothing after it.                                              *)
C16_PartsAndTerminator ==
    (pc = "Continuation") =>
        /\ \E pdf \in PdfOutcomes :
              mime = Compose(targets[index], index, pdf, cvWrapped, portfolioWrapped, recWrapped)
        /\ \A pdf \in PdfOutcomes :
              (mime = Compose(targets[index], index, pdf, cvWrapped, portfolioWrapped, recWrapped)) =>
                  WellFormedMultipart(mime, Boundary(index), AttachmentsOf(targets[index], pdf))

C16_Witness ==
    /\ pc = "Continuation"
    /\ Len(LinesEqual(SplitLines(mime), T_Dashes \o Boundary(index))) = 5
    /\ Len(LinesEqual(SplitLines(mime), T_Dashes \o Boundary(index) \o T_Dashes)) = 1
    /\ WellFormedMultipart(mime, Boundary(index),
                           AttachmentsOf(targets[index], [exists |-> TRUE, bytes |-> CoverLetterPdf]))

(* number of parts of a document that are declared as attachments *)
AttachmentCount(doc) ==
    LET lines == SplitLines(doc)
    IN  Cardinality({k \in 1..Len(lines) :
                       /\ Len(lines[k]) >= Len(T_CDAttach)
                       /\ SubSeq(lines[k], 1, Len(T_CDAttach)) = T_CDAttach})

(* C17: every draft uploaded by the generator carries four attachments: CV, *)
(* Portfolio, Recommendation Letter and the Cover Letter PDF of the target. *)
C17_FourAttachments ==
    (JustReturned /\ Last(results).ok) =>
        /\ AttachmentCount(mime) = 4
        /\ WellFormedMultipart(mime, Boundary(index),
                               AttachmentsOf(targets[index], [exists |-> TRUE, bytes |-> CoverLetterPdf]))

(* the rows of tracker.csv, as loaded, of firm `firm` with Status "Generated" *)
GeneratedRows(firm) ==
    SelectSeq(existingTracker, LAMBDA row : row.Firm = firm /\ row.Status = T_Generated)

(* C18: a target whose firm has a row with Status "Generated" in tracker.csv *)
(* is skipped: the step that takes it composes nothing and writes nothing to *)
(* the transport, and carries the existing row over unchanged; the exported  *)
(* tracker still holds the row.                                              *)
C18_GeneratedFirmSkipped ==
    [][/\ (/\ pc = "Targets"
           /\ index < Len(targets)
           /\ index' = index + 1
           /\ GeneratedRows(targets[index'].firm) # <<>>) =>
              /\ pc' = "Targets"
              /\ <<mime, wire, body, results, conn>> = <<mime', wire', body', results', conn'>>
              /\ trackerRows' = trackerRows \o GeneratedRows(targets[index'].firm)
       /\ (pc' = "Done" /\ pc # "Done") =>
              \A k \in 1..Len(targets) :
                 \A j \in 1..Len(GeneratedRows(targets[k].firm)) :
                    \E n \in 1..Len(trackerFile') :
                       trackerFile'[n] = GeneratedRows(targets[k].firm)[j]]_vars

C18_Witness ==
    /\ pc = "Done"
    /\ Len(targets) = 2
    /\ targets[1] = TargetBolt
    /\ existingTracker = <<RowOf(TargetAcme, <<"S", "e", "n", "t">>), RowOf(TargetBolt, T_Generated)>>
    /\ Len(results) = 1
    /\ AppendsWritten = 1
    /\ trackerFile[1] = RowOf(TargetBolt, T_Generated)

(* C19: no retries: the step that hands a message to the uploader writes *)
(* one APPEND command, and no other step writes one, whether the APPEND  *)
(* of the message succeeds or fails.                                     *)
C19_OneAppendPerMessage ==
    [][/\ Len(SelectSeq(wire', IsAppend)) - AppendsWritten =
             (IF index' = index + 1 /\ pc' = "Continuation" THEN 1 ELSE 0)
       /\ (Len(results') > Len(results)) =>
             /\ Len(results') = Len(results) + 1
             /\ wire' = wire
             /\ index' = index
             /\ pc' = "Targets"
       /\ Len(SelectSeq(wire', IsAppend)) <= index'
       /\ Len(results') <= Len(SelectSeq(wire', IsAppend))]_vars

C19_Witness ==
    /\ pc = "Done"
    /\ Len(results) = 2
    /\ ~results[1].ok
    /\ results[2].ok
    /\ AppendsWritten = 2
    /\ Len(wire) = 4

-----------------------------------------------------------------------------
(* The calls that have returned *)

Deductions(uid) ==
    SelectSeq(returns, LAMBDA r : r.fn = "use_credits_safe" /\ r.uid = uid /\ r.result)

Increments(uid) ==
    SelectSeq(returns, LAMBDA r : r.fn = "increment_credits" /\ r.uid = uid /\ r.row)

AmountSum(calls) ==
    SumRange([k \in 1..Len(calls) |-> IF calls[k].amount = SqlNull THEN 0 ELSE calls[k].amount[1]],
             1, Len(calls))

(* every use_credits_safe call that has returned did what the function promises *)
DeductionsAsPromised ==
    \A k \in 1..Len(returns) :
        LET r == returns[k]
        IN  (r.fn = "use_credits_safe") =>
                IF r.result
                THEN /\ r.row
                     /\ r.before # SqlNull
                     /\ r.amount # SqlNull
                     /\ r.before[1] >= r.amount[1]
                     /\ r.after = Num(r.before[1] - r.amount[1])
                ELSE /\ r.after = r.before
                     /\ \/ ~r.row
                        \/ r.before = SqlNull
                        \/ r.amount # SqlNull /\ r.before[1] < r.amount[1]

(* C20: use_credits_safe returns TRUE and subtracts the amount only when the *)
(* balance is at least the amount, and returns FALSE leaving the balance     *)
(* unchanged otherwise; under every interleaving of concurrent calls the     *)
(* balance is never below zero and the sum of the amounts deducted is never  *)
(* more than the starting balance plus what was added.                       *)
C20_SafeDeduction ==
    /\ DeductionsAsPromised
    /\ \A u \in DOMAIN user_credits :
          /\ user_credits[u] # SqlNull
          /\ user_credits[u][1] >= 0
          /\ \A k \in 1..Len(returns) :
                (returns[k].uid = u /\ \A j \in 1..(k - 1) : returns[j].uid # u) =>
                    AmountSum(Deductions(u)) <= returns[k].before[1] + AmountSum(Increments(u))

-----------------------------------------------------------------------------
(* C21: a Session is used strictly sequentially: a command line is written *)
(* only when every command written before it has reached its terminal      *)
(* state (LOGIN completed OK, every Send-ImapDraft call returned), so at   *)
(* most one command is in flight.                                          *)
C21_OneCommandInFlight ==
    [][/\ (Len(wire') > Len(wire)) =>
             /\ Len(wire') = Len(wire) + 1
             /\ \/ wire = <<>>
                \/ /\ conn.cmd >= 2
                   /\ pc = "Targets"
                   /\ Len(results) = AppendsWritten
       /\ (pc' \in {"Continuation", "Completion"}) =>
             Len(SelectSeq(wire', IsAppend)) = Len(results') + 1]_vars

C21_Witness ==
    /\ pc = "LogoutRead"
    /\ Len(wire) = 4
    /\ AppendsWritten = 2
    /\ Len(results) = 2
    /\ Last(wire) = T_Logout

(* C22: the writes of one APPEND are, in this order and no other: the      *)
(* command line; then, only after a line starting with "+" was read, the   *)
(* byteCount bytes of the message unmodified; then one CRLF; nothing else   *)
(* is written until the tagged completion has been read.                    *)
C22_WriteOrder ==
    (wire # <<>> /\ IsAppend(Last(wire))) =>
        \/ body = <<>>
        \/ /\ StartsWithPlus(firstResp)
           /\ body = <<[k |-> "raw", s |-> UTF8GetBytes(mime)], [k |-> "line", s |-> <<>>]>>
           /\ Len(body[1].s) = byteCount
           /\ byteCount = LiteralCount(Last(wire))

C22_Witness ==
    /\ pc = "Completion"
    /\ IsAppend(Last(wire))
    /\ firstResp = L_GoAhead
    /\ resp = L_Exists
    /\ Len(body) = 2
    /\ body[1].s = UTF8GetBytes(mime)
    /\ body[2] = [k |-> "line", s |-> <<>>]

(* the line starts with the tag followed by a space *)
StartsWithTag(line, tag) ==
    /\ line # Null
    /\ Len(line) > Len(tag)
    /\ SubSeq(line, 1, Len(tag) + 1) = tag \o <<" ">>

InWait ==
    pc \in {"LoginWait", "Completion"}

AwaitedTag ==
    IF pc = "LoginWait" THEN LoginTag ELSE cmdTag

(* C23: a wait for a tagged completion discards every line read that does  *)
(* not start with the tag of the command followed by a space (an untagged  *)
(* line, or a line whose tag only begins with the awaited tag) and ends at *)
(* the first line that does; nothing is read after it by that wait.        *)
C23_WaitForTagged ==
    [][(InWait /\ pc' # "Crashed" /\ silent' = silent) =>
          IF StartsWithTag(resp', AwaitedTag)
          THEN pc' \notin {"LoginWait", "Completion"}
          ELSE (resp' # Null) =>
                  /\ pc' = pc
                  /\ <<ok, results, wire, body, console, conn, trackerRows>>
                       = <<ok', results', wire', body', console', conn', trackerRows'>>]_vars

C23_Witness ==
    /\ pc = "Completion"
    /\ cmdTag = <<"a", "2">>
    /\ resp = <<"a", "2", "0">> \o S_OKSuccess
    /\ Len(results) = 0

-----------------------------------------------------------------------------
(* The composer on its own: the "Build MIME message" block run for one target
   after another, each time with the index and the cover-letter PDF the run
   happens to have, and the GUID and the clock of one of two moments *)

MaxComposed ==
    2

ComposerInit ==
    /\ composed = <<>>
    /\ ScriptRest
    /\ EncoderRest
    /\ DatabaseRest
    /\ AppRest

BuildMimeMessage ==
    /\ Len(composed) < MaxComposed
    /\ \E t \in TargetPool, idx \in 1..MaxTargets,
          pdf \in {NoFile, [exists |-> TRUE, bytes |-> CoverLetterPdf]},
          moment \in {<<Guid16, EmlDate>>, <<GuidOther, EmlDateLater>>} :
          LET boundary == BoundaryOf(idx, moment[1])
              emlDate == moment[2]
              cvW == Wrap_Base64(ToBase64String(CvFile))
              portfolioW == Wrap_Base64(ToBase64String(PortfolioFile))
              recW == Wrap_Base64(ToBase64String(RecFile))
              doc == ComposeWith(boundary, emlDate, t, pdf, cvW, portfolioW, recW)
          IN  composed' = Append(composed,
                  [boundary |-> boundary, emlDate |-> emlDate, target |-> t, pdf |-> pdf,
                   attachments |-> <<cvW, portfolioW, recW>>,
                   mime |-> doc, byteCount |-> ByteCount(doc)])
    /\ UNCHANGED <<scriptVars, encoderVars, dbVars, appVars>>

ComposerNext ==
    BuildMimeMessage

ComposerSpec ==
    ComposerInit /\ [][ComposerNext]_vars

InputsOf(m) ==
    <<m.boundary, m.emlDate, m.target, m.pdf, m.attachments>>

(* C24: two compositions given the same boundary, the same date and the same
   message content (sender, recipient, subject, body fields, attachment bytes
   and names) produce the same bytes, and so the same byteCount *)
C24_Deterministic ==
    \A j, k \in 1..Len(composed) :
        InputsOf(composed[j]) = InputsOf(composed[k]) =>
            /\ UTF8GetBytes(composed[j].mime) = UTF8GetBytes(composed[k].mime)
            /\ composed[j].byteCount = composed[k].byteCount

C24_Witness ==
    /\ Len(composed) = 2
    /\ InputsOf(composed[1]) = InputsOf(composed[2])
    /\ composed[1].pdf.exists
    /\ composed[1].byteCount > 0
    /\ composed[1].mime = composed[2].mime

(* the last command written is an APPEND that was abandoned on a first line *)
(* that was neither its "+" nor its tagged completion: the server has not   *)
(* finished answering it                                                    *)
LastAppendUnanswered ==
    /\ wire # <<>>
    /\ IsAppend(Last(wire))
    /\ AppendReturned
    /\ firstResp # Null
    /\ ~StartsWithPlus(firstResp)
    /\ ~StartsWithTag(firstResp, TagOf(Last(wire)))

(* C25: an APPEND command is written only when the server owes nothing to *)
(* an earlier APPEND: otherwise the line read next as its continuation    *)
(* (the "+" or the completion of the earlier command) was not sent for    *)
(* it, and a server that sent "+" takes the new command line as data of   *)
(* the earlier literal.                                                   *)
C25_NoStaleContinuation ==
    [][LastAppendUnanswered =>
          ~(Len(wire') > Len(wire) /\ IsAppend(Last(wire')) /\ L_GoAhead \in ReadLine(cmdTag)')]_vars

(* the skip test of the target loop, applied to the tracker.csv a run left behind *)
SkippedNextRun(t) ==
    \E n \in 1..Len(trackerFile) :
        /\ EqIgnoreCase(trackerFile[n].Firm, t.firm)
        /\ EqIgnoreCase(trackerFile[n].Status, T_Generated)

(* some draft of the firm was uploaded with success in this run *)
UploadedFor(firm) ==
    \E i \in 1..Len(results) :
        results[i].ok /\ EqIgnoreCase(targets[results[i].index].firm, firm)

(* C26: when the run has ended, a target whose draft was handed to the   *)
(* uploader without any upload for its firm succeeding has no "Generated" *)
(* row in tracker.csv, so the next run does not skip it.                  *)
C26_GeneratedOnlyIfUploaded ==
    (pc = "Done") =>
        \A i \in 1..Len(results) :
            ~UploadedFor(targets[results[i].index].firm) =>
                ~SkippedNextRun(targets[results[i].index])

(* the run has ended, or will never take another step *)
RunOver ==
    \/ pc \in {"Done", "Crashed"}
    \/ silent /\ AtRead

(* C27: when a run is over, whether it ended normally, was ended by an error *)
(* or is blocked in a read for ever, every target whose draft was uploaded   *)
(* with success has its "Generated" row in tracker.csv, so the next run      *)
(* skips it and uploads no second draft.                                     *)
C27_UploadedIsRecorded ==
    RunOver =>
        \A i \in 1..Len(results) :
            results[i].ok => SkippedNextRun(targets[results[i].index])

(* how many times the row occurs in the rows *)
Occurrences(rows, row) ==
    Len(SelectSeq(rows, LAMBDA r : r = row))

(* C28: after the export at the end of a run every row that tracker.csv held *)
(* before the run is still in it, as many times as before: rows are only     *)
(* added.                                                                    *)
C28_ExportKeepsRows ==
    (pc = "Done") =>
        \A n \in 1..Len(existingTracker) :
            Occurrences(trackerFile, existingTracker[n]) >= Occurrences(existingTracker, existingTracker[n])

-----------------------------------------------------------------------------
(* app.js: one call of api and one call of confirmAndGenerate, each cut at *)
(* its awaits, with the auth listener running in between                   *)

MaxChunks ==
    2

genVars ==
    <<pendingTargets, manualTargets, confirmBtn, toasts, genPc, allTargets, readerDone, finalResult,
      caught, chunks>>

apiLocals ==
    <<apiPc, opts, requests, refreshes, refreshData, apiRes, apiResult>>

AppInit ==
    /\ accessToken \in {NoToken, "t0"}
    /\ supabaseClient \in {"null", "client"}
    /\ view = "app"
    /\ manualTargets \in {<<>>, <<"Acme">>}
    /\ pendingTargets \in {<<>>, <<"Bolt">>, <<"Bolt", "Cole">>}
    /\ confirmBtn = [disabled |-> (Len(manualTargets) + Len(pendingTargets) = 0)]
    /\ toasts = <<>>
    /\ apiPc = "Idle"
    /\ opts = [Authorization |-> NoToken]
    /\ requests = <<>>
    /\ refreshes = 0
    /\ refreshData = NoToken
    /\ apiRes = "none"
    /\ apiResult = [threw |-> FALSE, value |-> "none"]
    /\ genPc = "Idle"
    /\ allTargets = <<>>
    /\ readerDone = FALSE
    /\ finalResult = NoResult
    /\ caught = "null"
    /\ chunks = 0
    /\ ScriptRest
    /\ EncoderRest
    /\ DatabaseRest
    /\ ComposerRest

(* the listener registered in init: a session sets the token, none clears it *)
onAuthStateChange ==
    /\ supabaseClient = "client"
    /\ \E session \in {NoToken, "t1", "t2"} :
          IF session # NoToken
          THEN accessToken' = session /\ view' = "app"
          ELSE accessToken' = NoToken /\ view' = "landing"
    /\ UNCHANGED <<supabaseClient, genVars, apiLocals>>
    /\ UNCHANGED <<scriptVars, encoderVars, dbVars, composed>>

(* api, up to the first fetch *)
api_Fetch ==
    /\ apiPc = "Idle"
    /\ opts' = [Authorization |-> accessToken]
    /\ requests' = Append(requests, opts'.Authorization)
    /\ apiPc' = "Fetch"
    /\ UNCHANGED <<accessToken, supabaseClient, view, refreshes, refreshData, apiRes, apiResult, genVars>>
    /\ UNCHANGED <<scriptVars, encoderVars, dbVars, composed>>

Throw(message) ==
    /\ apiResult' = [threw |-> TRUE, value |-> message]
    /\ apiPc' = "Done"

(* showLogin, then the throw of api *)
SessionExpired ==
    /\ view' = "login"
    /\ Throw("Session expired. Please sign in again.")

(* api, from the answer to the first fetch to the next await *)
api_Response ==
    /\ apiPc = "Fetch"
    /\ \E status \in {"rejected", "200", "401", "500"} :
        /\ apiRes' = status
        /\ CASE status = "rejected" ->
                  /\ Throw("Failed to fetch")
                  /\ UNCHANGED <<view, refreshes>>
             [] status = "401" ->
                  IF supabaseClient = "null"
                  THEN SessionExpired /\ UNCHANGED refreshes
                  ELSE /\ refreshes' = refreshes + 1
                       /\ apiPc' = "Refresh"
                       /\ UNCHANGED <<view, apiResult>>
             [] status = "500" ->
                  /\ Throw("Request failed")
                  /\ UNCHANGED <<view, refreshes>>
             [] OTHER ->
                  /\ apiResult' = [threw |-> FALSE, value |-> "json"]
                  /\ apiPc' = "Done"
                  /\ UNCHANGED <<view, refreshes>>
    /\ UNCHANGED <<accessToken, supabaseClient, opts, requests, refreshData, genVars>>
    /\ UNCHANGED <<scriptVars, encoderVars, dbVars, composed>>

(* refreshSession from the answer of supabase on, and api up to the retry *)
refreshSession ==
    /\ apiPc = "Refresh"
    /\ \E error \in BOOLEAN, session \in {NoToken, "t1", "t2"} :
        /\ refreshData' = session
        /\ IF error \/ session = NoToken
           THEN /\ SessionExpired
                /\ UNCHANGED <<accessToken, opts, requests>>
           ELSE /\ accessToken' = session
                /\ opts' = [opts EXCEPT !.Authorization = accessToken']
                /\ requests' = Append(requests, opts'.Authorization)
                /\ apiPc' = "Retry"
                /\ UNCHANGED <<view, apiResult>>
    /\ UNCHANGED <<supabaseClient, refreshes, apiRes, genVars>>
    /\ UNCHANGED <<scriptVars, encoderVars, dbVars, composed>>

(* variant: a 401 on the retry starts one more refresh *)
api_RetryResponse_again ==
    /\ apiPc = "Retry"
    /\ \E status \in {"rejected", "200", "401", "500"} :
        /\ apiRes' = status
        /\ IF status = "401"
           THEN /\ refreshes' = refreshes + 1
                /\ apiPc' = "Refresh"
                /\ UNCHANGED apiResult
           ELSE /\ apiResult' = [threw |-> status # "200", value |-> status]
                /\ apiPc' = "Done"
                /\ UNCHANGED refreshes
    /\ UNCHANGED <<accessToken, supabaseClient, view, opts, requests, refreshData, genVars>>
    /\ UNCHANGED <<scriptVars, encoderVars, dbVars, composed>>

(* api, from the answer to the retry on *)
api_RetryResponse ==
    /\ apiPc = "Retry"
    /\ \E status \in {"rejected", "200", "401", "500"} :
        /\ apiRes' = status
        /\ CASE status = "rejected" -> Throw("Failed to fetch")
             [] status = "200" -> apiResult' = [threw |-> FALSE, value |-> "json"] /\ apiPc' = "Done"
             [] OTHER -> Throw("Request failed")
    /\ UNCHANGED <<accessToken, supabaseClient, view, opts, requests, refreshes, refreshData, genVars>>
    /\ UNCHANGED <<scriptVars, encoderVars, dbVars, composed>>

Toast(msg, type) ==
    [msg |-> msg, type |-> type]

(* variant: the button is left as it is *)
Finally_nothing ==
    UNCHANGED confirmBtn

(* the finally clause of confirmAndGenerate *)
Finally ==
    confirmBtn' = [confirmBtn EXCEPT !.disabled = FALSE]

(* the catch clause of confirmAndGenerate, then finally *)
Catch(message) ==
    /\ caught' = message
    /\ toasts' = Append(toasts, Toast(message, "error"))
    /\ Finally
    /\ genPc' = "Done"

(* the data: lines a chunk of the generate stream may carry *)
Events ==
    {[type |-> "progress", generated |-> "none", save_error |-> FALSE],
     [type |-> "target_done", generated |-> "none", save_error |-> FALSE],
     [type |-> "invalid", generated |-> "none", save_error |-> FALSE],
     [type |-> "complete", generated |-> "null", save_error |-> FALSE],
     [type |-> "complete", generated |-> "array", save_error |-> FALSE],
     [type |-> "complete", generated |-> "array", save_error |-> TRUE],
     [type |-> "complete", generated |-> "object", save_error |-> FALSE]}

(* confirmAndGenerate, up to the fetch of generate-stream *)
confirmAndGenerate_Fetch ==
    /\ genPc = "Idle"
    /\ allTargets' = manualTargets \o pendingTargets
    /\ IF Len(allTargets') = 0
       THEN /\ toasts' = Append(toasts, Toast("No positions to generate", "error"))
            /\ genPc' = "Done"
            /\ UNCHANGED confirmBtn
       ELSE /\ confirmBtn' = [confirmBtn EXCEPT !.disabled = TRUE]
            /\ genPc' = "Fetch"
            /\ UNCHANGED toasts
    /\ UNCHANGED <<accessToken, supabaseClient, view, pendingTargets, manualTargets, readerDone, finalResult,
                   caught, chunks, apiLocals>>
    /\ UNCHANGED <<scriptVars, encoderVars, dbVars, composed>>

(* confirmAndGenerate, from the answer to the fetch to the first read *)
confirmAndGenerate_Response ==
    /\ genPc = "Fetch"
    /\ \E status \in {"rejected", "200", "401", "500"} :
          CASE status = "rejected" -> Catch("Failed to fetch")
            [] status = "200" -> genPc' = "Read" /\ UNCHANGED <<caught, toasts, confirmBtn>>
            [] OTHER -> Catch("Generate failed")
    /\ UNCHANGED <<accessToken, supabaseClient, view, pendingTargets, manualTargets, allTargets, readerDone,
                   finalResult, chunks, apiLocals>>
    /\ UNCHANGED <<scriptVars, encoderVars, dbVars, composed>>

(* confirmAndGenerate, one turn of the read loop *)
confirmAndGenerate_Read ==
    /\ genPc = "Read"
    /\ \/ /\ chunks < MaxChunks
          /\ \E evt \in Events :
                finalResult' = IF evt.type = "complete" THEN evt ELSE finalResult
          /\ chunks' = chunks + 1
          /\ UNCHANGED <<genPc, readerDone, caught, toasts, confirmBtn>>
       \/ /\ readerDone' = TRUE
          /\ genPc' = "Timeout"
          /\ UNCHANGED <<finalResult, chunks, caught, toasts, confirmBtn>>
       \/ /\ Catch("network error")
          /\ UNCHANGED <<finalResult, chunks, readerDone>>
    /\ UNCHANGED <<accessToken, supabaseClient, view, pendingTargets, manualTargets, allTargets, apiLocals>>
    /\ UNCHANGED <<scriptVars, encoderVars, dbVars, composed>>

(* confirmAndGenerate, from the end of the 800 ms pause to the return *)
confirmAndGenerate_Render ==
    /\ genPc = "Timeout"
    /\ IF finalResult # NoResult /\ finalResult.generated = "object"
       THEN /\ Catch("finalResult.generated.forEach is not a function")
            /\ UNCHANGED <<pendingTargets, manualTargets>>
       ELSE /\ toasts' = IF finalResult # NoResult /\ finalResult.generated = "array" /\ finalResult.save_error
                         THEN Append(toasts, Toast("save_error", "error"))
                         ELSE toasts
            /\ pendingTargets' = <<>>
            /\ manualTargets' = <<>>
            /\ Finally
            /\ genPc' = "Done"
            /\ UNCHANGED caught
    /\ UNCHANGED <<accessToken, supabaseClient, view, allTargets, readerDone, finalResult, chunks, apiLocals>>
    /\ UNCHANGED <<scriptVars, encoderVars, dbVars, composed>>

AppNext ==
    \/ onAuthStateChange
    \/ api_Fetch
    \/ api_Response
    \/ refreshSession
    \/ api_RetryResponse
    \/ confirmAndGenerate_Fetch
    \/ confirmAndGenerate_Response
    \/ confirmAndGenerate_Read
    \/ confirmAndGenerate_Render

AppSpec ==
    AppInit /\ [][AppNext]_vars

(* C29: a call of api sends its request at most twice; the second time only *)
(* as the step that ends a successful refreshSession, with the token that   *)
(* refresh returned; a refresh that fails sends nothing, shows the login    *)
(* view and throws; the answer to the retry ends the call, a 401 by a       *)
(* throw, with no further refresh and no further request.                   *)
C29_OneRetryAfterRefresh ==
    [][/\ Len(requests') <= 2
       /\ (Len(requests') > Len(requests) /\ requests # <<>>) =>
             /\ apiPc = "Refresh"
             /\ refreshes = 1
             /\ refreshData' # NoToken
             /\ requests' = Append(requests, refreshData')
             /\ accessToken' = refreshData'
       /\ (apiPc = "Refresh" /\ apiPc' \notin {"Refresh", "Retry"}) =>
             /\ requests' = requests
             /\ view' = "login"
             /\ apiPc' = "Done"
             /\ apiResult'.threw
       /\ (apiPc = "Fetch" /\ apiRes' = "401" /\ apiPc' \notin {"Fetch", "Refresh"}) =>
             /\ supabaseClient = "null"
             /\ requests' = requests
             /\ view' = "login"
             /\ apiPc' = "Done"
             /\ apiResult'.threw
       /\ (apiPc = "Retry" /\ apiPc' # "Retry") =>
             /\ apiPc' = "Done"
             /\ requests' = requests
             /\ refreshes' = refreshes
             /\ (apiRes' = "401") => apiResult'.threw]_vars

C29_Witness ==
    /\ apiPc = "Done"
    /\ requests = <<"t0", "t1">>
    /\ refreshes = 1
    /\ apiRes = "401"
    /\ apiResult.threw
    /\ accessToken = "t2"

(* C30: when confirmAndGenerate has returned after disabling the button, *)
(* the button is enabled; the two lists were emptied only if the stream   *)
(* was read to its end and nothing was caught, and if something was       *)
(* caught they are what they were at the call.                            *)
C30_ButtonAndLists ==
    (genPc = "Done" /\ allTargets # <<>>) =>
        /\ ~confirmBtn.disabled
        /\ (manualTargets \o pendingTargets # allTargets) => (readerDone /\ caught = "null")
        /\ (caught # "null") => (manualTargets \o pendingTargets = allTargets)

C30_Witness ==
    /\ genPc = "Done"
    /\ allTargets = <<"Acme", "Bolt">>
    /\ readerDone
    /\ caught # "null"
    /\ finalResult.generated = "object"
    /\ manualTargets = <<"Acme">>
    /\ pendingTargets = <<"Bolt">>
    /\ ~confirmBtn.disabled

====
